---- MODULE Spec2Model ----
(***************************************************************************)
(* State-machine model of the SSD1681 e-paper driver                       *)
(* (src/ssd1681_driver.py): the two bit-packed planes, the orientation     *)
(* mapping, the glyph renderer, the command protocol and the busy wait.    *)
(***************************************************************************)
EXTENDS Integers, Sequences, FiniteSets, TLC

VARIABLES width, height, orientation, _buffer_size, buffer, red_buffer, last, pre, bus, hist, wb

vars == <<width, height, orientation, _buffer_size, buffer, red_buffer, last, pre, bus, hist, wb>>

(***************************************************************************)
(* Program constants (ssd1681_driver.py, lines 13-45).                     *)
(***************************************************************************)
CMD_SW_RESET == 18
CMD_GATE_DRIVING_VOLTAGE == 1
CMD_DATA_ENTRY_MODE == 17
CMD_SET_RAM_X_RANGE == 68
CMD_SET_RAM_Y_RANGE == 69
CMD_SET_RAM_X_COUNTER == 78
CMD_SET_RAM_Y_COUNTER == 79
CMD_WRITE_RAM_BW == 36
CMD_WRITE_RAM_RED == 38
CMD_LOAD_LUT == 34
CMD_ACTIVATE_DISPLAY == 32
CMD_DISPLAY_UPDATE == 34
CMD_MASTER_ACTIVATE == 32
CMD_DEEP_SLEEP == 16
CMD_SOFT_START == 12
UPDATE_MODE_FULL == 247
DATA_ENTRY_MODE_DEFAULT == 3
COLOR_WHITE == 0
COLOR_BLACK == 1
COLOR_RED == 2
ORIENTATION_0 == 0
ORIENTATION_90 == 1
ORIENTATION_180 == 2
ORIENTATION_270 == 3

(***************************************************************************)
(* Bounds of the model.                                                    *)
(***************************************************************************)
\* largest font_size passed to text()
MaxScale == 2
\* pixel() is called with coordinates sampled from -Margin .. extent-1+Margin
Margin == 1

(***************************************************************************)
(* Byte arithmetic.                                                        *)
(***************************************************************************)
\* 1 << n for n in 0..7
Pow2(n) == <<1, 2, 4, 8, 16, 32, 64, 128>>[n + 1]

\* the bit of byte b selected by the one-bit mask m
BitAt(b, m) == (b \div m) % 2

\* b | m for a one-bit mask m
OrMask(b, m) == IF BitAt(b, m) = 1 THEN b ELSE b + m

\* b & ~m for a one-bit mask m
AndNotMask(b, m) == IF BitAt(b, m) = 1 THEN b - m ELSE b

\* 0x80 >> bit_index
Mask(bit_index) == <<128, 64, 32, 16, 8, 4, 2, 1>>[bit_index + 1]

\* an item stored into a bytearray: MicroPython keeps its low eight bits
Byte(v) == v % 256

\* bytearray([fill] * n): a plane is the sequence of its bytes, byte i of the source being element i + 1
NewPlane(n, fill) == [i \in 1 .. n |-> fill]

(***************************************************************************)
(* _map_coordinates                                                        *)
(***************************************************************************)
hw_x_of(x, y) == CASE orientation = ORIENTATION_0 -> width - 1 - x [] orientation = ORIENTATION_90 -> y [] orientation = ORIENTATION_180 -> x [] orientation = ORIENTATION_270 -> height - 1 - y [] OTHER -> width - 1 - x

hw_y_of(x, y) == CASE orientation = ORIENTATION_0 -> height - 1 - y [] orientation = ORIENTATION_90 -> width - 1 - x [] orientation = ORIENTATION_180 -> y [] orientation = ORIENTATION_270 -> x [] OTHER -> height - 1 - y

byte_index_of(x, y) == (hw_y_of(x, y) * width + hw_x_of(x, y)) \div 8

bit_index_of(x, y) == hw_x_of(x, y) % 8

_map_coordinates(x, y) == [hw_x |-> hw_x_of(x, y), hw_y |-> hw_y_of(x, y), byte_index |-> byte_index_of(x, y), bit_index |-> bit_index_of(x, y)]

\* InCanvas without its lower bounds, as a test written "x < width and y < height" would be
InCanvasUpperOnly(x, y) == x < width /\ y < height

\* the canvas test of _set_pixel_buffer
InCanvas(x, y) == 0 <= x /\ x < width /\ 0 <= y /\ y < height

\* Python subscript on a bytearray of length n: -n..-1 count from the end, anything else raises IndexError
HasIndex(buf, i) == (0 - Len(buf)) <= i /\ i < Len(buf)

\* the element of the sequence that subscript i of the source selects
PyIndex(buf, i) == IF i < 0 THEN i + Len(buf) + 1 ELSE i + 1

(***************************************************************************)
(* _set_pixel_buffer: the new plane, or raised = TRUE for an IndexError.   *)
(***************************************************************************)
\* buffer[byte_index] |= mask (value) or buffer[byte_index] &= ~mask (not value)
StoreBit(buf, byte_index, mask, value) ==
  IF ~HasIndex(buf, byte_index) THEN [buf |-> buf, raised |-> TRUE]
  ELSE [buf |-> [buf EXCEPT ![PyIndex(buf, byte_index)] = IF value THEN OrMask(@, mask) ELSE AndNotMask(@, mask)], raised |-> FALSE]

_set_pixel_buffer(x, y, buf, value) ==
  IF ~InCanvas(x, y) THEN [buf |-> buf, raised |-> FALSE]
  ELSE StoreBit(buf, byte_index_of(x, y), Mask(bit_index_of(x, y)), value)

\* ColorBits with red clearing the primary bit, as black does
ColorBitsRedClearsPrimary(color) == CASE color = COLOR_WHITE -> <<TRUE, FALSE>> [] color = COLOR_BLACK -> <<FALSE, FALSE>> [] color = COLOR_RED -> <<FALSE, TRUE>>

\* the plane bits pixel() writes for a colour: <<primary, accent>>
ColorBits(color) == CASE color = COLOR_WHITE -> <<TRUE, FALSE>> [] color = COLOR_BLACK -> <<FALSE, FALSE>> [] color = COLOR_RED -> <<TRUE, TRUE>>

(***************************************************************************)
(* pixel, as a transformer of st = [buffer, red_buffer, raised]: the call  *)
(* on self.buffer, then, unless that one raised, the call on               *)
(* self.red_buffer.                                                        *)
(***************************************************************************)
AccentWritten(st, primary, r2) == IF r2.raised THEN [buffer |-> primary, red_buffer |-> st.red_buffer, raised |-> TRUE] ELSE [buffer |-> primary, red_buffer |-> r2.buf, raised |-> FALSE]

PrimaryWritten(st, x, y, accent, r1) == IF r1.raised THEN [st EXCEPT !.raised = TRUE] ELSE AccentWritten(st, r1.buf, _set_pixel_buffer(x, y, st.red_buffer, accent))

pixel(st, x, y, color) ==
  IF st.raised \/ color \notin {COLOR_WHITE, COLOR_BLACK, COLOR_RED} THEN st
  ELSE PrimaryWritten(st, x, y, ColorBits(color)[2], _set_pixel_buffer(x, y, st.buffer, ColorBits(color)[1]))

(***************************************************************************)
(* clear                                                                   *)
(***************************************************************************)
\* clear resetting the primary plane only
clearPrimaryOnly(st) ==
  [buffer |-> [i \in 1 .. Len(st.buffer) |-> IF i - 1 < _buffer_size THEN 255 ELSE st.buffer[i]], red_buffer |-> st.red_buffer, raised |-> FALSE]

clear(st) ==
  [buffer |-> [i \in 1 .. Len(st.buffer) |-> IF i - 1 < _buffer_size THEN 255 ELSE st.buffer[i]], red_buffer |-> [i \in 1 .. Len(st.red_buffer) |-> IF i - 1 < _buffer_size THEN 0 ELSE st.red_buffer[i]], raised |-> FALSE]

(***************************************************************************)
(* The font table ssd1681_driver_fonts.FONT_8X8 is not part of the         *)
(* sources; it is modelled from its use in _draw_char: eight column bytes  *)
(* per character, bit r of column byte c being row r of column c.          *)
(***************************************************************************)
FontChars == {" ", "A", "B", "C", "D", "E", "F", "G", "H"}

FONT_8X8(ch) == CASE ch = "A" -> <<129, 0, 0, 24, 0, 0, 0, 129>> [] ch = "B" -> <<1, 2, 4, 8, 16, 32, 64, 128>> [] ch = "C" -> <<128, 64, 32, 16, 8, 4, 2, 1>> [] ch = "D" -> <<3, 0, 0, 0, 0, 0, 0, 192>> [] ch = "E" -> <<0, 60, 0, 0, 0, 0, 0, 0>> [] ch = "F" -> <<0, 0, 0, 0, 0, 60, 0, 0>> [] ch = "G" -> <<0, 0, 129, 0, 0, 129, 0, 0>> [] ch = "H" -> <<255, 0, 0, 0, 0, 0, 0, 0>> [] OTHER -> <<0, 0, 0, 0, 0, 0, 0, 0>>

\* FONT_8X8.get(char, FONT_8X8[' '])
FontGet(ch) == IF ch \in FontChars THEN FONT_8X8(ch) ELSE FONT_8X8(" ")

\* char_data[7-col] & (1 << row)
GlyphBit(char_data, col, row) == (char_data[(7 - col) + 1] \div Pow2(row)) % 2 = 1

(***************************************************************************)
(* _draw_char: one recursive operator per loop of the source, innermost    *)
(* first; each threads st through its iterations in source order.          *)
(***************************************************************************)
RECURSIVE ScaleColLoop(_, _, _, _, _, _, _, _, _)
ScaleColLoop(st, x, y, color, font_size, row, col, scale_row, scale_col) ==
  IF scale_col >= font_size \/ st.raised THEN st
  ELSE ScaleColLoop(pixel(st, x + (7 - col) * font_size + scale_col, y + row * font_size + scale_row, color), x, y, color, font_size, row, col, scale_row, scale_col + 1)

RECURSIVE ScaleRowLoop(_, _, _, _, _, _, _, _)
ScaleRowLoop(st, x, y, color, font_size, row, col, scale_row) ==
  IF scale_row >= font_size \/ st.raised THEN st
  ELSE ScaleRowLoop(ScaleColLoop(st, x, y, color, font_size, row, col, scale_row, 0), x, y, color, font_size, row, col, scale_row + 1)

RECURSIVE ColLoop(_, _, _, _, _, _, _, _)
ColLoop(st, char_data, x, y, color, font_size, row, col) ==
  IF col >= 8 \/ st.raised THEN st
  ELSE ColLoop(IF GlyphBit(char_data, col, row) THEN ScaleRowLoop(st, x, y, color, font_size, row, col, 0) ELSE st, char_data, x, y, color, font_size, row, col + 1)

RECURSIVE RowLoop(_, _, _, _, _, _, _)
RowLoop(st, char_data, x, y, color, font_size, row) ==
  IF row >= 8 \/ st.raised THEN st
  ELSE RowLoop(ColLoop(st, char_data, x, y, color, font_size, row, 0), char_data, x, y, color, font_size, row + 1)

_draw_char(st, ch, x, y, color, font_size) == RowLoop(st, FontGet(ch), x, y, color, font_size, 0)

(***************************************************************************)
(* text: acc = [st, drawn], drawn being the char_x of every character      *)
(* handed to _draw_char, in order.                                         *)
(***************************************************************************)
RECURSIVE TextFrom(_, _, _, _, _, _, _)
TextFrom(acc, string, x, y, color, font_size, char_index) ==
  LET char_width == 8 * font_size
      char_x == x + (char_index * char_width)
  IN  IF char_index >= Len(string) \/ acc.st.raised THEN acc
      ELSE IF char_x + char_width > width THEN acc
      ELSE TextFrom([st |-> _draw_char(acc.st, string[char_index + 1], char_x, y, color, font_size), drawn |-> Append(acc.drawn, char_x)], string, x, y, color, font_size, char_index + 1)

text(st, string, x, y, color, font_size) == TextFrom([st |-> st, drawn |-> <<>>], string, x, y, color, font_size, 0)

(***************************************************************************)
(* The bus and the control lines.  An event is <<line or call, values>>:   *)
(* a pin write, a write of bytes on the serial bus, a delay, or one call   *)
(* of _wait_busy (every caller discards what it returns).                  *)
(***************************************************************************)
Ev(kind, values) == <<kind, values>>

\* the optional data argument of _command
None == <<>>

Some(data) == <<data>>

\* bytearray(data) for a list of integers
ByteArray(data) == [i \in 1 .. Len(data) |-> Byte(data[i])]

_data(data) == <<Ev("dc", <<1>>), Ev("cs", <<0>>), Ev("spi", ByteArray(data)), Ev("cs", <<1>>), Ev("sleep_ms", <<1>>)>>

\* _command leaving chip-select asserted after the command byte
_commandHoldsCs(cmd, data) == <<Ev("dc", <<0>>), Ev("cs", <<0>>), Ev("spi", ByteArray(<<cmd>>)), Ev("sleep_ms", <<1>>)>> \o (IF data = None THEN <<>> ELSE _data(data[1]))

_command(cmd, data) == <<Ev("dc", <<0>>), Ev("cs", <<0>>), Ev("spi", ByteArray(<<cmd>>)), Ev("cs", <<1>>), Ev("sleep_ms", <<1>>)>> \o (IF data = None THEN <<>> ELSE _data(data[1]))

\* one call of self._wait_busy() as seen by its caller
WaitBusyCall == <<Ev("wait_busy", <<>>)>>

_init_pins == <<Ev("cs", <<1>>), Ev("dc", <<0>>), Ev("rst", <<1>>)>>

_reset_ram_address == _command(CMD_SET_RAM_X_COUNTER, Some(<<0>>)) \o _command(CMD_SET_RAM_Y_COUNTER, Some(<<0, 0>>))

reset == <<Ev("rst", <<1>>), Ev("sleep_ms", <<200>>), Ev("rst", <<0>>), Ev("sleep_ms", <<10>>), Ev("rst", <<1>>), Ev("sleep_ms", <<200>>)>>

_power_on_sequence == reset \o WaitBusyCall \o _command(CMD_SW_RESET, None) \o WaitBusyCall

_configure_ram ==
  LET x_end == (width \div 8) - 1
      y_end_low == (height - 1) % 256
      y_end_high == ((height - 1) \div 256) % 256
  IN  _command(CMD_GATE_DRIVING_VOLTAGE, Some(<<199, 0, 0>>))
      \o _command(CMD_DATA_ENTRY_MODE, Some(<<DATA_ENTRY_MODE_DEFAULT>>))
      \o _command(CMD_SET_RAM_X_RANGE, Some(<<0, x_end>>))
      \o _command(CMD_SET_RAM_Y_RANGE, Some(<<0, 0, y_end_low, y_end_high>>))
      \o _reset_ram_address

_load_lut == _command(CMD_LOAD_LUT, Some(<<177>>)) \o _command(CMD_ACTIVATE_DISPLAY, None) \o WaitBusyCall

\* init loading the LUT before it configures the RAM
initLutFirst == _power_on_sequence \o _load_lut \o _configure_ram \o WaitBusyCall

init == _power_on_sequence \o _configure_ram \o _load_lut \o WaitBusyCall

\* show writing the red RAM before the black/white RAM
showRedFirst ==
  _reset_ram_address
  \o _command(CMD_WRITE_RAM_RED, Some(red_buffer))
  \o _reset_ram_address
  \o _command(CMD_WRITE_RAM_BW, Some(buffer))
  \o _command(CMD_SOFT_START, Some(<<215, 214, 157>>))
  \o _command(CMD_DISPLAY_UPDATE, Some(<<UPDATE_MODE_FULL>>))
  \o _command(CMD_MASTER_ACTIVATE, None)
  \o WaitBusyCall

show ==
  _reset_ram_address
  \o _command(CMD_WRITE_RAM_BW, Some(buffer))
  \o _reset_ram_address
  \o _command(CMD_WRITE_RAM_RED, Some(red_buffer))
  \o _command(CMD_SOFT_START, Some(<<215, 214, 157>>))
  \o _command(CMD_DISPLAY_UPDATE, Some(<<UPDATE_MODE_FULL>>))
  \o _command(CMD_MASTER_ACTIVATE, None)
  \o WaitBusyCall

sleep == _command(CMD_DEEP_SLEEP, Some(<<1>>))

(***************************************************************************)
(* The callers of _wait_busy.  Every call is the statement                 *)
(* self._wait_busy(): what it returns is discarded and the next statement  *)
(* runs.  Run(ev, results) is the events of a call whose straight-line     *)
(* events are ev when its busy waits return results, in order.             *)
(***************************************************************************)
\* a caller that gives up when a busy wait reports a timeout
AfterWaitAbort(result, rest) == IF result THEN rest ELSE <<>>

\* the statements that run after self._wait_busy() returned result
AfterWait(result, rest) == rest

\* the position of the first busy wait among the events ev, 0 if there is none
FirstWait(ev) == IF \E i \in 1 .. Len(ev) : ev[i][1] = "wait_busy" THEN CHOOSE i \in 1 .. Len(ev) : ev[i][1] = "wait_busy" /\ \A j \in 1 .. (i - 1) : ev[j][1] # "wait_busy" ELSE 0

RECURSIVE Run(_, _)
Run(ev, results) ==
  IF FirstWait(ev) = 0 THEN ev
  ELSE SubSeq(ev, 1, FirstWait(ev)) \o Run(AfterWait(results[1], SubSeq(ev, FirstWait(ev) + 1, Len(ev))), Tail(results))

(***************************************************************************)
(* _wait_busy, statement by statement.  t is the time in ms since the call *)
(* began; the tick counter reads (start + t) mod TicksPeriod.  sleep_ms(50)*)
(* takes 50 ms; the statements between a read of the busy line and the     *)
(* next read of the tick counter take less than a millisecond, so the      *)
(* counter advances by 0 or 1 between them.                                *)
(***************************************************************************)
TicksPeriod == 1073741824

DEFAULT_TIMEOUT_MS == 15000

POLL_MS == 50

ClockTick == {0, 1}

\* time.ticks_ms() when t ms have passed since a call that began at tick value start
ticks_ms(start, t) == (start + t) % TicksPeriod

\* time.ticks_diff(a, b): the signed difference modulo the period
ticks_diff(a, b) == ((a - b + (TicksPeriod \div 2)) % TicksPeriod) - (TicksPeriod \div 2)

\* BeforeTimeout with a plain subtraction in place of ticks_diff
BeforeTimeoutPlainDiff(w, t) == ticks_ms(w.start, t) - w.start < w.timeout_ms

\* the test ticks_diff(ticks_ms(), start) < timeout_ms of the loop condition and of the return statement
BeforeTimeout(w, t) == ticks_diff(ticks_ms(w.start, t), w.start) < w.timeout_ms

\* what self.busy.value() may read
BusyLevels(w) == IF w.stuck THEN {1} ELSE {0, 1}

\* the loop condition's first operand: a 0 leaves the loop without reading the clock
Sampled(w, level) == IF level = 0 THEN [w EXCEPT !.pc = "return", !.low_at = w.t] ELSE [w EXCEPT !.pc = "check"]

\* the loop condition's second operand, evaluated d ms after the busy line was read
Checked(w, d) == IF BeforeTimeout(w, w.t + d) THEN [w EXCEPT !.pc = "sleep", !.t = w.t + d] ELSE [w EXCEPT !.pc = "return", !.t = w.t + d, !.exit_at = w.t + d]

\* time.sleep_ms(50)
Slept(w) == [w EXCEPT !.pc = "sample", !.t = w.t + POLL_MS, !.polls = w.polls + 1]

\* return ticks_diff(ticks_ms(), start) < timeout_ms, evaluated d ms after the loop was left
Returned(w, d) == [w EXCEPT !.pc = "done", !.t = w.t + d, !.result = BeforeTimeout(w, w.t + d)]

(***************************************************************************)
(* Sessions and inputs explored.                                           *)
(***************************************************************************)
\* <<width, height>> of the panels a session is constructed for
Panels == {<<8, 8>>, <<16, 8>>, <<8, 16>>, <<3, 3>>}

\* the four orientation constants and one value that is none of them
Orientations == {ORIENTATION_0, ORIENTATION_90, ORIENTATION_180, ORIENTATION_270, 4}

Colors == {COLOR_WHITE, COLOR_BLACK, COLOR_RED}

\* two opposite corners of the canvas
InPoints == {<<0, 0>>, <<width - 1, height - 1>>}

\* points m beyond an edge of the canvas, for m in 1..Margin
OutPoints == UNION {{<<0 - m, 0>>, <<0, 0 - m>>, <<width - 1 + m, 0>>, <<0, height - 1 + m>>, <<width - 1 + m, height - 1 + m>>, <<0 - m, 0 - m>>} : m \in 1 .. Margin}

TextStrings == {<<"A", "B">>, <<"A", "B", "C", "D", "E", "F", "G", "H">>, <<"?">>}

TextXs == {0, 1}

TextColors == {COLOR_BLACK, COLOR_RED}

Scales == 1 .. MaxScale

\* timeout_ms arguments of _wait_busy
Timeouts == {0, 51, 120, DEFAULT_TIMEOUT_MS}

\* tick counter values at which a call of _wait_busy begins
Starts == {0, TicksPeriod - 100}

(***************************************************************************)
(* State.  width .. red_buffer are the fields of the session object; last  *)
(* is the public call made last with its arguments and outcome, pre the    *)
(* planes as they were when it was made, bus the pin and bus events it     *)
(* produced, hist the last calls made (kept by the end-to-end scenario),   *)
(* wb the frame of a running _wait_busy.                                   *)
(***************************************************************************)
NoCall == [op |-> "new", x |-> 0, y |-> 0, color |-> 0, str |-> <<>>, scale |-> 0, raised |-> FALSE, drawn |-> <<>>]

Planes == [buffer |-> buffer, red_buffer |-> red_buffer, raised |-> FALSE]

WbIdle == [pc |-> "idle", timeout_ms |-> 0, start |-> 0, t |-> 0, stuck |-> FALSE, polls |-> 0, low_at |-> 0 - 1, exit_at |-> 0 - 1, result |-> FALSE]

\* __init__
New(w, h, o) ==
  /\ width = w
  /\ height = h
  /\ orientation = o
  /\ _buffer_size = (w * h) \div 8
  /\ buffer = NewPlane((w * h) \div 8, 255)
  /\ red_buffer = NewPlane((w * h) \div 8, 0)
  /\ last = NoCall
  /\ pre = [buffer |-> NewPlane((w * h) \div 8, 255), red_buffer |-> NewPlane((w * h) \div 8, 0)]
  /\ bus = _init_pins
  /\ hist = <<>>
  /\ wb = WbIdle

Init == \E p \in Panels, o \in Orientations : New(p[1], p[2], o)

Fields == <<width, height, orientation, _buffer_size>>

\* the effect of a drawing call that leaves the planes as st
Drawn(st, call) ==
  /\ buffer' = st.buffer
  /\ red_buffer' = st.red_buffer
  /\ last' = call
  /\ pre' = [buffer |-> buffer, red_buffer |-> red_buffer]
  /\ bus' = <<>>
  /\ UNCHANGED Fields

\* the effect of a protocol call that produced the events ev
Sent(ev, name) ==
  /\ bus' = ev
  /\ last' = [NoCall EXCEPT !.op = name]
  /\ pre' = [buffer |-> buffer, red_buffer |-> red_buffer]
  /\ UNCHANGED <<Fields, buffer, red_buffer>>

ClearCall == \E st \in {clear(Planes)} : Drawn(st, [NoCall EXCEPT !.op = "clear"])

PixelCall(x, y, color) == \E st \in {pixel(Planes, x, y, color)} : Drawn(st, [NoCall EXCEPT !.op = "pixel", !.x = x, !.y = y, !.color = color, !.raised = st.raised])

TextCall(string, x, y, color, font_size) == \E r \in {text(Planes, string, x, y, color, font_size)} : Drawn(r.st, [op |-> "text", x |-> x, y |-> y, color |-> color, str |-> string, scale |-> font_size, raised |-> r.st.raised, drawn |-> r.drawn])

InitCall == Sent(init, "init")

\* show() resetting the planes once it has sent them
ShowCallClearsPlanes ==
  /\ bus' = show
  /\ last' = [NoCall EXCEPT !.op = "show"]
  /\ pre' = [buffer |-> buffer, red_buffer |-> red_buffer]
  /\ buffer' = NewPlane(Len(buffer), 255)
  /\ red_buffer' = NewPlane(Len(red_buffer), 0)
  /\ UNCHANGED Fields

ShowCall == Sent(show, "show")

SleepCall == Sent(sleep, "sleep")

(***************************************************************************)
(* Spec: one session, any sequence of the six public calls.                *)
(***************************************************************************)
Clear == ClearCall /\ UNCHANGED <<hist, wb>>

Pixel == \E p \in InPoints \cup {<<width, height>>}, color \in Colors : PixelCall(p[1], p[2], color) /\ UNCHANGED <<hist, wb>>

Text == TextCall(<<"A", "B">>, 0, 0, COLOR_BLACK, 1) /\ UNCHANGED <<hist, wb>>

InitDisplay == InitCall /\ UNCHANGED <<hist, wb>>

Show == ShowCall /\ UNCHANGED <<hist, wb>>

Sleep == SleepCall /\ UNCHANGED <<hist, wb>>

Next == Clear \/ Pixel \/ Text \/ InitDisplay \/ Show \/ Sleep

Spec == Init /\ [][Next]_vars

(***************************************************************************)
(* SpecPixel: pixel() with every colour, at points in and out of the       *)
(* canvas.                                                                 *)
(***************************************************************************)
PixelAny == \E p \in InPoints \cup OutPoints, color \in Colors \cup {3} : PixelCall(p[1], p[2], color) /\ UNCHANGED <<hist, wb>>

PixelNext == PixelAny \/ Clear

SpecPixel == Init /\ [][PixelNext]_vars

(***************************************************************************)
(* SpecText: text() with every string, position, colour and scale of the   *)
(* input sets, on the panels a sixteen pixel wide canvas needs.            *)
(***************************************************************************)
TextPanels == {<<16, 8>>, <<8, 8>>}

TextInit == \E p \in TextPanels, o \in {ORIENTATION_0, ORIENTATION_90, ORIENTATION_180} : New(p[1], p[2], o)

TextAny == \E string \in TextStrings, x \in TextXs, color \in TextColors, font_size \in Scales : TextCall(string, x, 0, color, font_size) /\ UNCHANGED <<hist, wb>>

TextNext == TextAny \/ Clear

SpecText == TextInit /\ [][TextNext]_vars

(***************************************************************************)
(* SpecE2E: the end-to-end scenario on a 200x200 session: init(), clear(), *)
(* one pixel() call, show(); hist holds the calls made so far.             *)
(***************************************************************************)
E2EInit == New(200, 200, ORIENTATION_0)

E2EInitDisplay == Len(hist) = 0 /\ InitCall /\ hist' = Append(hist, last') /\ UNCHANGED wb

E2EClear == Len(hist) = 1 /\ ClearCall /\ hist' = Append(hist, last') /\ UNCHANGED wb

E2EPixel == Len(hist) = 2 /\ (\E x \in {0, 1, 7, 8, 199, 200}, y \in {0, 1, 199, 200}, color \in Colors : PixelCall(x, y, color) /\ hist' = Append(hist, last')) /\ UNCHANGED wb

E2EShow == Len(hist) = 3 /\ ShowCall /\ hist' = Append(hist, last') /\ UNCHANGED wb

E2ENext == E2EInitDisplay \/ E2EClear \/ E2EPixel \/ E2EShow

SpecE2E == E2EInit /\ [][E2ENext]_vars

(***************************************************************************)
(* SpecWait: calls of _wait_busy, one statement per step.                  *)
(***************************************************************************)
Session == <<Fields, buffer, red_buffer, last, pre, bus, hist>>

WaitInit == New(8, 8, ORIENTATION_0)

WaitCall == wb.pc \in {"idle", "done"} /\ (\E timeout_ms \in Timeouts, start \in Starts, stuck \in BOOLEAN : wb' = [WbIdle EXCEPT !.pc = "sample", !.timeout_ms = timeout_ms, !.start = start, !.stuck = stuck]) /\ UNCHANGED Session

WaitSample == wb.pc = "sample" /\ (\E level \in BusyLevels(wb) : wb' = Sampled(wb, level)) /\ UNCHANGED Session

WaitCheck == wb.pc = "check" /\ (\E d \in ClockTick : wb' = Checked(wb, d)) /\ UNCHANGED Session

WaitSleep == wb.pc = "sleep" /\ wb' = Slept(wb) /\ UNCHANGED Session

WaitReturn == wb.pc = "return" /\ (\E d \in ClockTick : wb' = Returned(wb, d)) /\ UNCHANGED Session

WaitNext == WaitCall \/ WaitSample \/ WaitCheck \/ WaitSleep \/ WaitReturn

SpecWait == WaitInit /\ [][WaitNext]_vars

(***************************************************************************)
(* SpecBusy: init() and show() with every outcome of their busy waits;     *)
(* hist holds what the waits of the last call returned.                    *)
(***************************************************************************)
BusyInit == \E r \in [1 .. 4 -> BOOLEAN] : Sent(Run(init, r), "init") /\ hist' = r /\ UNCHANGED wb

BusyShow == \E r \in [1 .. 1 -> BOOLEAN] : Sent(Run(show, r), "show") /\ hist' = r /\ UNCHANGED wb

BusyPixel == \E color \in Colors : PixelCall(0, 0, color) /\ hist' = <<>> /\ UNCHANGED wb

BusyNext == BusyInit \/ BusyShow \/ BusyPixel

SpecBusy == Init /\ [][BusyNext]_vars

(***************************************************************************)
(* Reading the model's state: what the properties below observe.           *)
(***************************************************************************)
\* the bit of plane buf at byte byte_index, position bit_index counted from the most significant bit; -1 outside the plane
BitRead(buf, byte_index, bit_index) == IF 0 <= byte_index /\ byte_index < Len(buf) THEN (buf[byte_index + 1] \div Pow2(7 - bit_index)) % 2 ELSE 0 - 1

\* <<primary, accent>> as stored in planes b and r for the logical pixel (x, y)
StoredBits(b, r, x, y) == <<BitRead(b, byte_index_of(x, y), bit_index_of(x, y)), BitRead(r, byte_index_of(x, y), bit_index_of(x, y))>>

\* <<primary, accent>> of each colour
BitsOfColor(color) == CASE color = COLOR_BLACK -> <<0, 0>> [] color = COLOR_RED -> <<1, 1>> [] color = COLOR_WHITE -> <<1, 0>>

OutOfRange(x, y) == x < 0 \/ y < 0 \/ x >= width \/ y >= height

Canvas == (0 .. (width - 1)) \X (0 .. (height - 1))

SomeByteNot(buf, v) == \E i \in 1 .. Len(buf) : buf[i] # v

\* the events of a call as the controller sees them: reset line writes, busy waits, and the bytes
\* written on the bus, a command when the data/command line is low and data when it is high
RECURSIVE TraceFrom(_, _, _)
TraceFrom(ev, i, dc) ==
  IF i > Len(ev) THEN <<>>
  ELSE CASE ev[i][1] = "dc" -> TraceFrom(ev, i + 1, ev[i][2][1])
         [] ev[i][1] = "spi" -> <<<<IF dc = 0 THEN "cmd" ELSE "data", ev[i][2]>>>> \o TraceFrom(ev, i + 1, dc)
         [] ev[i][1] \in {"rst", "wait_busy"} -> <<ev[i]>> \o TraceFrom(ev, i + 1, dc)
         [] OTHER -> TraceFrom(ev, i + 1, dc)

Trace == TraceFrom(bus, 1, 0)

\* patterns of trace items: an item with exactly these values, a data write of n bytes, a data write of any length
Item(kind, values) == [kind |-> kind, fixed |-> TRUE, values |-> values, len |-> Len(values)]

DataOfLen(n) == [kind |-> "data", fixed |-> FALSE, values |-> <<>>, len |-> n]

AnyData == [kind |-> "data", fixed |-> FALSE, values |-> <<>>, len |-> 0 - 1]

Matches(tr, pat) ==
  /\ Len(tr) = Len(pat)
  /\ \A i \in 1 .. Len(pat) :
       /\ tr[i][1] = pat[i].kind
       /\ pat[i].fixed => tr[i][2] = pat[i].values
       /\ pat[i].len >= 0 => Len(tr[i][2]) = pat[i].len

\* the data written right after command byte c
HasPayload(tr, c) == \E i \in 1 .. (Len(tr) - 1) : tr[i] = <<"cmd", <<c>>>> /\ tr[i + 1][1] = "data"

PayloadOf(tr, c) == tr[(CHOOSE i \in 1 .. (Len(tr) - 1) : tr[i] = <<"cmd", <<c>>>> /\ tr[i + 1][1] = "data") + 1][2]

(***************************************************************************)
(* C1 (SpecPixel).                                                         *)
(***************************************************************************)
\* C1: after pixel(x, y, c) with (x, y) inside the canvas and c one of the three colours, whatever
\* the planes held before, the call has not raised and the bit at the mapped (byte index,
\* MSB-first bit index) position reads primary=0, accent=0 for BLACK, primary=1, accent=1 for
\* RED, primary=1, accent=0 for WHITE.
C1_PixelRoundTrip == (last.op = "pixel" /\ last.color \in Colors /\ ~OutOfRange(last.x, last.y)) => (~last.raised /\ StoredBits(buffer, red_buffer, last.x, last.y) = BitsOfColor(last.color))

(***************************************************************************)
(* C2 (SpecPixel).                                                         *)
(***************************************************************************)
\* C2: pixel(x, y, c) with x < 0, y < 0, x >= width or y >= height, for any colour and any
\* orientation, raises nothing and leaves both planes byte-for-byte as they were.
C2_OutOfRangeNoOp == (last.op = "pixel" /\ OutOfRange(last.x, last.y)) => (~last.raised /\ buffer = pre.buffer /\ red_buffer = pre.red_buffer)

\* an out-of-range pixel() call with a negative coordinate made on planes that earlier calls have drawn on
C2_Witness == last.op = "pixel" /\ last.x < 0 /\ last.color = COLOR_BLACK /\ SomeByteNot(pre.buffer, 255) /\ SomeByteNot(pre.red_buffer, 0) /\ buffer = pre.buffer /\ red_buffer = pre.red_buffer

C4_MappingBijection ==
  orientation \in {ORIENTATION_0, ORIENTATION_90, ORIENTATION_180, ORIENTATION_270} =>
    /\ \A p \in Canvas : 0 <= _map_coordinates(p[1], p[2]).hw_x /\ _map_coordinates(p[1], p[2]).hw_x < width /\ 0 <= _map_coordinates(p[1], p[2]).hw_y /\ _map_coordinates(p[1], p[2]).hw_y < height
    /\ \A p \in Canvas, q \in Canvas : p # q => <<hw_x_of(p[1], p[2]), hw_y_of(p[1], p[2])>> # <<hw_x_of(q[1], q[2]), hw_y_of(q[1], q[2])>>

(***************************************************************************)
(* C5 (SpecText).                                                          *)
(***************************************************************************)
\* character i (from 0) of the call fits: every character j <= i has its right edge inside the canvas
Fits(call, i) == \A j \in 0 .. i : call.x + (j + 1) * 8 * call.scale <= width

\* the pixels of the canvas that glyph ch inks when drawn with its left edge at cx
InkedPixels(ch, cx, y, scale) == {p \in Canvas : p[1] >= cx /\ p[1] < cx + 8 * scale /\ p[2] >= y /\ p[2] < y + 8 * scale /\ GlyphBit(FontGet(ch), 7 - ((p[1] - cx) \div scale), (p[2] - y) \div scale)}

\* C5: text(s, x, y, c, scale) raises nothing, draws character i of s with its left edge at
\* x + i*8*scale, and draws it exactly when every character j <= i satisfies
\* x + (j+1)*8*scale <= width; the characters from the first that does not fit on are dropped.
C5_TextLayout ==
  last.op = "text" =>
    /\ ~last.raised
    /\ \A i \in 0 .. (Len(last.str) - 1) :
         /\ (i < Len(last.drawn)) <=> Fits(last, i)
         /\ Fits(last, i) => (i < Len(last.drawn) /\ last.drawn[i + 1] = last.x + i * 8 * last.scale /\ \A p \in InkedPixels(last.str[i + 1], last.x + i * 8 * last.scale, last.y, last.scale) : StoredBits(buffer, red_buffer, p[1], p[2]) = BitsOfColor(last.color))

(***************************************************************************)
(* C6 (SpecE2E).                                                           *)
(***************************************************************************)
\* the scenario has run: init(), clear(), pixel(0, 0, RED), show() on the 200x200 session, orientation 0
E2EDone == Len(hist) = 4 /\ hist[1].op = "init" /\ hist[2].op = "clear" /\ hist[3].op = "pixel" /\ hist[3].x = 0 /\ hist[3].y = 0 /\ hist[3].color = COLOR_RED /\ hist[4].op = "show" /\ width = 200 /\ height = 200 /\ orientation = ORIENTATION_0

\* C6 as stated: the payload after 0x24 is 0xFF in every byte except that the bit of the mapped
\* (0,0) pixel (byte 4999; bit 7 is 0x01 counted from the most significant bit, 0x80 counted
\* from the least) is cleared, and the payload after 0x26 is 0x00 except for that bit, set.
C6_AsStated ==
  E2EDone =>
    /\ HasPayload(Trace, 36) /\ HasPayload(Trace, 38)
    /\ Len(PayloadOf(Trace, 36)) = 5000 /\ Len(PayloadOf(Trace, 38)) = 5000
    /\ \A i \in 0 .. 4998 : PayloadOf(Trace, 36)[i + 1] = 255 /\ PayloadOf(Trace, 38)[i + 1] = 0
    /\ <<PayloadOf(Trace, 36)[5000], PayloadOf(Trace, 38)[5000]>> \in {<<254, 1>>, <<127, 128>>}

\* C6: after init(), clear(), pixel(0, 0, RED), show() on the 200x200 session with orientation 0,
\* the payload after 0x24 is 0xFF in every byte (red leaves the primary bit of the pixel at 1),
\* and the payload after 0x26 is 0x00 in every byte except byte 4999, the byte of the mapped
\* (0,0) pixel, which is 0x01: the bit at MSB-first index 7 is set.
C6_EndToEnd ==
  E2EDone =>
    /\ HasPayload(Trace, 36) /\ HasPayload(Trace, 38)
    /\ Len(PayloadOf(Trace, 36)) = 5000 /\ Len(PayloadOf(Trace, 38)) = 5000
    /\ \A i \in 0 .. 4999 : PayloadOf(Trace, 36)[i + 1] = 255
    /\ \A i \in 0 .. 4998 : PayloadOf(Trace, 38)[i + 1] = 0
    /\ PayloadOf(Trace, 38)[5000] = 1

\* the scenario has run and show() has sent both planes
C6_Witness == E2EDone /\ last.op = "show" /\ HasPayload(Trace, 36) /\ HasPayload(Trace, 38) /\ SomeByteNot(PayloadOf(Trace, 38), 0)

(***************************************************************************)
(* C7, C8 (SpecWait).                                                      *)
(***************************************************************************)
\* C7: with a busy line that never reads low, _wait_busy(timeout_ms) sleeps at most
\* timeout_ms/50 + 1 times, 50 ms each, leaves the loop at an elapsed time of at least timeout_ms
\* and at most timeout_ms + 50, and returns False.
C7_StuckBusyTimesOut ==
  wb.stuck =>
    /\ wb.polls <= (wb.timeout_ms \div POLL_MS) + 1
    /\ wb.t <= wb.timeout_ms + POLL_MS + 1
    /\ wb.pc = "done" => (~wb.result /\ wb.low_at < 0 /\ wb.timeout_ms <= wb.exit_at /\ wb.exit_at <= wb.timeout_ms + POLL_MS)

\* a call with a stuck busy line that returned after leaving the loop a whole polling interval past its timeout
C7_Witness == wb.pc = "done" /\ wb.stuck /\ wb.timeout_ms = 51 /\ wb.exit_at = 101 /\ wb.polls = 2 /\ ~wb.result

\* C8: _wait_busy(timeout_ms) returns True exactly when a poll read the busy line low at an
\* elapsed time below timeout_ms.
C8_TrueIffObservedLow == wb.pc = "done" => (wb.result <=> (wb.low_at >= 0 /\ wb.low_at < wb.timeout_ms))

(***************************************************************************)
(* C9, C10 (Spec).                                                         *)
(***************************************************************************)
InitTrace == <<Item("rst", <<1>>), Item("rst", <<0>>), Item("rst", <<1>>), Item("wait_busy", <<>>), Item("cmd", <<18>>), Item("wait_busy", <<>>), Item("cmd", <<1>>), AnyData, Item("cmd", <<17>>), Item("data", <<3>>), Item("cmd", <<68>>), AnyData, Item("cmd", <<69>>), AnyData, Item("cmd", <<78>>), Item("data", <<0>>), Item("cmd", <<79>>), Item("data", <<0, 0>>), Item("cmd", <<34>>), DataOfLen(1), Item("cmd", <<32>>), Item("wait_busy", <<>>), Item("wait_busy", <<>>)>>

\* C9: one call of init() produces exactly: reset line 1, 0, 1; wait-busy; 0x12; wait-busy; 0x01
\* with its parameters; 0x11 with 0x03; 0x44 and 0x45 with their parameters; 0x4E with 0; 0x4F
\* with 0, 0; 0x22 with one selector byte; 0x20; wait-busy; wait-busy.
C9_InitTrace == last.op = "init" => Matches(Trace, InitTrace)

\* init() called on a session whose planes have been drawn on
C9_Witness == last.op = "init" /\ Len(bus) > 0 /\ SomeByteNot(buffer, 255)

ShowTrace(primary, accent) == <<Item("cmd", <<78>>), Item("data", <<0>>), Item("cmd", <<79>>), Item("data", <<0, 0>>), Item("cmd", <<36>>), Item("data", primary), Item("cmd", <<78>>), Item("data", <<0>>), Item("cmd", <<79>>), Item("data", <<0, 0>>), Item("cmd", <<38>>), Item("data", accent), Item("cmd", <<12>>), Item("data", <<215, 214, 157>>), Item("cmd", <<34>>), Item("data", <<247>>), Item("cmd", <<32>>), Item("wait_busy", <<>>)>>

\* C10: one call of show() produces exactly: 0x4E with 0, 0x4F with 0, 0; 0x24 with the primary
\* plane; 0x4E, 0x4F again; 0x26 with the accent plane; 0x0C with 0xD7 0xD6 0x9D; 0x22 with
\* 0xF7; 0x20; wait-busy; the payloads are the planes as they were when show() was called.
C10_ShowTrace == last.op = "show" => Matches(Trace, ShowTrace(pre.buffer, pre.red_buffer))

\* show() called on planes that hold a black and a red pixel
C10_Witness == last.op = "show" /\ SomeByteNot(pre.buffer, 255) /\ SomeByteNot(pre.red_buffer, 0) /\ HasPayload(Trace, 36)

(***************************************************************************)
(* C11 (SpecBusy).                                                         *)
(***************************************************************************)
WaitCount(ev) == Len(SelectSeq(ev, LAMBDA e : e[1] = "wait_busy"))

\* C11: whatever the busy waits of init() and show() return, a timeout included, the call runs to
\* its end, makes each of its waits once, and emits the reset-line writes, command bytes and
\* data bytes it emits when every wait returns at once.
C11_TimeoutIgnored ==
  /\ last.op = "init" => (Trace = TraceFrom(init, 1, 0) /\ WaitCount(bus) = 4 /\ Len(hist) = 4)
  /\ last.op = "show" => (Trace = TraceFrom(show, 1, 0) /\ WaitCount(bus) = 1 /\ Len(hist) = 1)

\* init() has returned after every one of its four busy waits timed out
C11_Witness == last.op = "init" /\ hist = <<FALSE, FALSE, FALSE, FALSE>> /\ HasPayload(Trace, 34)

(***************************************************************************)
(* C12 (Spec).                                                             *)
(***************************************************************************)
\* the position of the last event of the given line before position i, 0 if there is none
LastBefore(ev, i, line) == IF \E j \in 1 .. (i - 1) : ev[j][1] = line THEN CHOOSE j \in 1 .. (i - 1) : ev[j][1] = line /\ \A k \in (j + 1) .. (i - 1) : ev[k][1] # line ELSE 0

\* the level of a pin line just before event i of a call that began with the line at level initial
LevelBefore(ev, i, line, initial) == IF LastBefore(ev, i, line) = 0 THEN initial ELSE ev[LastBefore(ev, i, line)][2][1]

\* C12: in the events of every call, made on a session whose previous call left chip-select
\* high: every bus write is made with chip-select low; a write with data/command-select low is
\* one byte; a write with data/command-select high follows a command write with no other write
\* in between; chip-select goes high between any two writes; chip-select is high when the call
\* returns.
C12_Framing ==
  /\ LevelBefore(bus, Len(bus) + 1, "cs", 1) = 1
  /\ \A i \in 1 .. Len(bus) : bus[i][1] = "spi" =>
       /\ LevelBefore(bus, i, "cs", 1) = 0
       /\ LevelBefore(bus, i, "dc", 0) = 0 => Len(bus[i][2]) = 1
       /\ LevelBefore(bus, i, "dc", 0) = 1 => (LastBefore(bus, i, "spi") > 0 /\ LevelBefore(bus, LastBefore(bus, i, "spi"), "dc", 0) = 0)
       /\ LastBefore(bus, i, "spi") > 0 => \E k \in (LastBefore(bus, i, "spi") + 1) .. (i - 1) : bus[k] = <<"cs", <<1>>>>

\* show() has written a sixteen byte plane as one data frame
C12_Witness == last.op = "show" /\ \E i \in 1 .. Len(bus) : bus[i][1] = "spi" /\ LevelBefore(bus, i, "dc", 0) = 1 /\ LevelBefore(bus, i, "cs", 1) = 0 /\ Len(bus[i][2]) = 16

(***************************************************************************)
(* C13 (SpecPixel), C14 (Spec).                                            *)
(***************************************************************************)
\* C13: distinct in-range logical pixels have distinct (byte index, bit index) positions, and
\* pixel(x, y, c) with (x, y) in range leaves the stored bit pair of every other in-range
\* logical pixel as it was before the call.
C13_OnePixelPerBit ==
  /\ \A p \in Canvas, q \in Canvas : p # q => <<byte_index_of(p[1], p[2]), bit_index_of(p[1], p[2])>> # <<byte_index_of(q[1], q[2]), bit_index_of(q[1], q[2])>>
  /\ (last.op = "pixel" /\ last.color \in Colors /\ ~OutOfRange(last.x, last.y)) => \A q \in Canvas \ {<<last.x, last.y>>} : StoredBits(buffer, red_buffer, q[1], q[2]) = StoredBits(pre.buffer, pre.red_buffer, q[1], q[2])

\* C14: the byte index of every in-range (x, y) lies inside both planes, and no call of pixel()
\* or text() raises.
C14_IndexInsidePlane ==
  /\ \A p \in Canvas : 0 <= byte_index_of(p[1], p[2]) /\ byte_index_of(p[1], p[2]) < Len(buffer) /\ byte_index_of(p[1], p[2]) < Len(red_buffer)
  /\ last.op \in {"pixel", "text"} => ~last.raised

(***************************************************************************)
(* C15 (Spec).                                                             *)
(***************************************************************************)
\* C15: a call of init(), show() or sleep() leaves both planes byte-for-byte as they were, and
\* no call of any of the six public operations changes the width, the height, the orientation
\* or the length of either plane.
C15_PlanesAndFieldsKept ==
  [][/\ last'.op \in {"init", "show", "sleep"} => (buffer' = buffer /\ red_buffer' = red_buffer)
     /\ width' = width /\ height' = height /\ orientation' = orientation
     /\ Len(buffer') = Len(buffer) /\ Len(red_buffer') = Len(red_buffer)]_vars

\* sleep() has returned on a session whose planes hold a black and a red pixel, and they still do
C15_Witness == last.op = "sleep" /\ buffer = pre.buffer /\ red_buffer = pre.red_buffer /\ SomeByteNot(buffer, 255) /\ SomeByteNot(red_buffer, 0)

(***************************************************************************)
(* C16 (Spec).                                                             *)
(***************************************************************************)
\* the events tr write no command byte, or begin with the reset pulse and the software reset
NoCommandBeforeReset(tr) == (\A i \in 1 .. Len(tr) : tr[i][1] # "cmd") \/ (Len(tr) >= 5 /\ SubSeq(tr, 1, 3) = <<<<"rst", <<1>>>>, <<"rst", <<0>>>>, <<"rst", <<1>>>>>> /\ \E i \in 4 .. Len(tr) : tr[i] = <<"cmd", <<18>>>> /\ \A j \in 4 .. (i - 1) : tr[j][1] # "cmd")

\* C16: sleep() emits exactly one command frame 0x10 and one data frame 0x01, and the call made
\* after sleep() writes no command byte unless it first carries out the reset pulse and the
\* software reset.
C16_SleepTerminal ==
  [][/\ last'.op = "sleep" => TraceFrom(bus', 1, 0) = <<<<"cmd", <<16>>>>, <<"data", <<1>>>>>>
     /\ last.op = "sleep" => NoCommandBeforeReset(TraceFrom(bus', 1, 0))]_vars

(***************************************************************************)
(* C17 (Spec).                                                             *)
(***************************************************************************)
\* C17: init() sends the X range payload [0, width/8 - 1] and the Y range payload [0, 0, lo, hi]
\* with lo + 256*hi = height - 1, and every byte of both payloads is in 0..255.
C17_RamRanges ==
  last.op = "init" =>
    /\ HasPayload(Trace, 68) /\ HasPayload(Trace, 69)
    /\ PayloadOf(Trace, 68) = <<0, (width \div 8) - 1>>
    /\ Len(PayloadOf(Trace, 69)) = 4 /\ PayloadOf(Trace, 69)[1] = 0 /\ PayloadOf(Trace, 69)[2] = 0
    /\ PayloadOf(Trace, 69)[3] + 256 * PayloadOf(Trace, 69)[4] = height - 1
    /\ \A i \in 1 .. 2 : PayloadOf(Trace, 68)[i] \in 0 .. 255
    /\ \A i \in 1 .. 4 : PayloadOf(Trace, 69)[i] \in 0 .. 255

(***************************************************************************)
(* C18 (Spec).                                                             *)
(***************************************************************************)
\* pixel p lies in the cell of glyph ch drawn with its left edge at cx, in the scale x scale block of a glyph bit that is 1
IsInked(p, ch, cx, y, scale) == p[1] >= cx /\ p[1] < cx + 8 * scale /\ p[2] >= y /\ p[2] < y + 8 * scale /\ GlyphBit(FontGet(ch), 7 - ((p[1] - cx) \div scale), (p[2] - y) \div scale)

\* C18: every logical pixel whose stored bit pair text() changes lies in the cell of a character
\* it drew, in the block of a glyph bit that is 1, and holds the text colour; every other pixel
\* keeps the bit pair it had.
C18_TextInksGlyphBits ==
  last.op = "text" =>
    \A p \in Canvas : StoredBits(buffer, red_buffer, p[1], p[2]) # StoredBits(pre.buffer, pre.red_buffer, p[1], p[2]) =>
      /\ \E i \in 1 .. Len(last.drawn) : IsInked(p, last.str[i], last.drawn[i], last.y, last.scale)
      /\ StoredBits(buffer, red_buffer, p[1], p[2]) = BitsOfColor(last.color)

(***************************************************************************)
(* C19 (Spec).                                                             *)
(***************************************************************************)
\* C19: at every bit position of the planes the pair (primary, accent) is (1,0), (0,0) or (1,1);
\* primary = 0 with accent = 1 never occurs.
C19_ValidEncodings ==
  /\ Len(buffer) = Len(red_buffer)
  /\ \A i \in 1 .. Len(buffer) : \A n \in 0 .. 7 : ~(BitAt(buffer[i], Pow2(n)) = 0 /\ BitAt(red_buffer[i], Pow2(n)) = 1)

\* pixel() has turned a black pixel red
C19_Witness == last.op = "pixel" /\ last.color = COLOR_RED /\ ~OutOfRange(last.x, last.y) /\ ~last.raised /\ StoredBits(pre.buffer, pre.red_buffer, last.x, last.y) = <<0, 0>> /\ StoredBits(buffer, red_buffer, last.x, last.y) = <<1, 1>>

====
